---- MODULE Spec2Model ----
(***************************************************************************)
(* A model of notebook/Utils.py: six stateless helpers over labelled       *)
(* tables (pandas DataFrames).  Each helper is one action: it is handed    *)
(* fresh input tables, and the state records what the call left behind:    *)
(* the tables as passed and as they are after the call, the value          *)
(* returned, the figure created/shown and the exception raised.            *)
(*                                                                         *)
(* Numbers: counts are naturals; percentages are exact rationals rounded   *)
(* the way the code rounds them and held as integers in the unit of the    *)
(* rounding (thousandths of a percent for np.round(.., 3), hundredths for  *)
(* the '.2f' format).  The explode threshold is held in percent.           *)
(***************************************************************************)
EXTENDS Integers, Sequences, FiniteSets, TLC

\* ---------------------------------------------------------------- bounds
MaxRows == 4
MaxGroupedRows == 2
MaxUniqueRows == 1
NumCategories == 3

\* ------------------------------------------------------------ input data
CategoryNames == <<"dos", "probe", "r2l", "u2r", "normal", "land", "smurf">>

Categories == {CategoryNames[i] : i \in 1..NumCategories}

\* The missing-value marker of a cell (NaN / None).
NaN == "<NaN>"

Cells == Categories \cup {NaN}

ColumnNames == {"attack_type", "protocol_type"}

\* Sequences over S of length 0..n.
SeqsUpTo(S, n) == UNION {[1..k -> S] : k \in 0..n}

\* Tables (DataFrames) with exactly the columns cols and at most n rows.
TablesOver(cols, n) == {[columns |-> cols, rows |-> r] : r \in SeqsUpTo([cols -> Cells], n)}

\* The tables the single-table helpers are called with.
Tables == UNION {TablesOver({c}, MaxRows) : c \in ColumnNames}
            \cup TablesOver(ColumnNames, MaxGroupedRows)

\* The tables find_unique_values is called with.
UniqueTables == UNION {TablesOver({c}, MaxUniqueRows) : c \in ColumnNames}

\* explode_threshold, in percent (0.05 is the default).
ExplodeThresholds == {5, 25, 50}

\* ---------------------------------------------------------------- values
NoValue == [kind |-> "none"]

NoFigure == [kind |-> "none"]

NoError == "none"

KeyError == "KeyError"

\* ------------------------------------------------------- pandas / numpy
HasColumn(df, column) == column \in df.columns

\* df[column]: the column's cells, in row order.
Column(df, column) == [i \in 1..Len(df.rows) |-> df.rows[i][column]]

\* Number of cells of s holding v.
CountOf(s, v) == Cardinality({i \in DOMAIN s : s[i] = v})

\* Series.unique(): the distinct cells, the missing marker included.
Unique(s) == {s[i] : i \in DOMAIN s}

\* Sum of the counts of a value-counts series.
RECURSIVE SumCounts(_)
SumCounts(vc) == IF vc = <<>> THEN 0 ELSE Head(vc).count + SumCounts(Tail(vc))

\* All orderings of the finite set S, as sequences without repetition.
Orderings(S) ==
    {f \in [1..Cardinality(S) -> S] : \A i, j \in DOMAIN f : i # j => f[i] # f[j]}

NonIncreasing(vc) == \A i \in 1..(Len(vc) - 1) : vc[i].count >= vc[i + 1].count

\* Series.value_counts() (dropna=True, sort=True): one entry per distinct
\* non-missing value, counts descending.  The order among equal counts is the
\* library's: every such order is an outcome.
ValueCounts(s) ==
    {vc \in Orderings({[label |-> v, count |-> CountOf(s, v)] : v \in Unique(s) \ {NaN}}) :
        NonIncreasing(vc)}

\* Series.sort_values(ascending=False) of a value-counts series.
SortValuesDescending(vc) ==
    {w \in Orderings({vc[i] : i \in DOMAIN vc}) : NonIncreasing(w)}

\* num/den rounded to the nearest integer, ties to even (np.round, format).
RoundHalfEven(num, den) ==
    LET q == num \div den
        r == num % den
    IN  IF 2 * r < den THEN q
        ELSE IF 2 * r > den THEN q + 1
        ELSE IF q % 2 = 0 THEN q ELSE q + 1

\* An exception raised before anything was created: the inputs are as passed.
Raise(dfs, e) == [dfs |-> dfs, ret |-> NoValue, fig |-> NoFigure, err |-> e]

\* ------------------------------------------------- plot_class_distribution
\* (count / total) * 100 as the bar's '.2f' text shows it, in hundredths.
BarPercentage(count, total) == RoundHalfEven(count * 10000, total)

\* The bar chart of a value-counts series: one bar per entry, annotated with
\* its height and with the percentage zipped to it.
ClassDistributionFigure(class_distribution) ==
    LET total_observations == SumCounts(class_distribution)
    IN  [kind |-> "bar", shown |-> TRUE,
         bars |-> [i \in DOMAIN class_distribution |->
                     [label |-> class_distribution[i].label,
                      height |-> class_distribution[i].count,
                      text |-> class_distribution[i].count,
                      percentage |-> BarPercentage(class_distribution[i].count,
                                                   total_observations)]]]

\* Variant of plot_class_distribution that opens the figure before it looks the
\* column up.
PlotClassDistributionFigureFirst(df, column) ==
    IF ~HasColumn(df, column)
    THEN {[dfs |-> <<df>>, ret |-> NoValue, err |-> KeyError,
           fig |-> [kind |-> "bar", shown |-> FALSE, bars |-> <<>>]]}
    ELSE {[dfs |-> <<df>>, ret |-> NoValue, err |-> NoError,
           fig |-> ClassDistributionFigure(cd)] : cd \in ValueCounts(Column(df, column))}

\* The outcomes of plot_class_distribution(df, column, ...).
PlotClassDistribution(df, column) ==
    IF ~HasColumn(df, column)
    THEN {Raise(<<df>>, KeyError)}
    ELSE {[dfs |-> <<df>>, ret |-> NoValue, err |-> NoError,
           fig |-> ClassDistributionFigure(cd)] : cd \in ValueCounts(Column(df, column))}

\* --------------------------------------------- plot_pie_chart_distribution
\* The offset of an exploded slice, 0.1, in tenths.
ExplodeOffset == 1

\* Variant of the explode test that also explodes a share equal to the threshold.
ExplodeAtOrBelow(count, total, explode_threshold) ==
    IF count * 100 <= total * explode_threshold THEN ExplodeOffset ELSE 0

\* 0.1 if count < (total * explode_threshold) else 0, the threshold in percent.
Explode(count, total, explode_threshold) ==
    IF count * 100 < total * explode_threshold THEN ExplodeOffset ELSE 0

\* The outcomes of plot_pie_chart_distribution(df, column, title,
\* explode_threshold=...).
PlotPieChartDistribution(df, column, explode_threshold) ==
    IF ~HasColumn(df, column)
    THEN {Raise(<<df>>, KeyError)}
    ELSE {[dfs |-> <<df>>, ret |-> NoValue, err |-> NoError,
           fig |-> [kind |-> "pie", shown |-> TRUE,
                    slices |-> [i \in DOMAIN cd |->
                                  [label |-> cd[i].label,
                                   size |-> cd[i].count,
                                   explode |-> Explode(cd[i].count, SumCounts(cd),
                                                       explode_threshold)]]]]
          : cd \in ValueCounts(Column(df, column))}

\* -------------------------------------------------------- plot_grouped_bar
\* df.groupby([category, sub_category]).size().reset_index(name=count): one
\* row per pair of non-missing keys that occurs, with the number of rows
\* holding it.
GroupSizes(df, category, sub_category, count) ==
    {[c \in {category, sub_category, count} |->
        IF c = category THEN k[1]
        ELSE IF c = sub_category THEN k[2]
        ELSE Cardinality({i \in DOMAIN df.rows :
                            /\ df.rows[i][category] = k[1]
                            /\ df.rows[i][sub_category] = k[2]})]
     : k \in {<<df.rows[i][category], df.rows[i][sub_category]>> : i \in DOMAIN df.rows}
             \cap (Categories \X Categories)}

\* grouped_data.sort_values(by=count, ascending=False).
SortByCountDescending(groups, count) ==
    {g \in Orderings(groups) : \A i \in 1..(Len(g) - 1) : g[i][count] >= g[i + 1][count]}

\* The figure plot_grouped_bar draws from the sorted groups.
GroupedBarFigure(grouped_data, category, sub_category, count) ==
    [kind |-> "grouped_bar", shown |-> TRUE, x |-> category, y |-> count,
     hue |-> sub_category, data |-> grouped_data]

\* Variant of plot_grouped_bar that writes the count column into df itself.
PlotGroupedBarInPlace(df, category, sub_category, count) ==
    IF ~HasColumn(df, category) \/ ~HasColumn(df, sub_category)
    THEN {Raise(<<df>>, KeyError)}
    ELSE {[dfs |-> <<[columns |-> df.columns \cup {count},
                      rows |-> [i \in DOMAIN df.rows |->
                                  [c \in df.columns \cup {count} |->
                                     IF c = count THEN NaN ELSE df.rows[i][c]]]]>>,
           ret |-> NoValue, err |-> NoError,
           fig |-> GroupedBarFigure(g, category, sub_category, count)]
          : g \in SortByCountDescending(GroupSizes(df, category, sub_category, count),
                                        count)}

\* The outcomes of plot_grouped_bar(df, category, sub_category, count, ...):
\* the grouping builds a new table, grouped_data, and df is left as passed.
PlotGroupedBar(df, category, sub_category, count) ==
    IF ~HasColumn(df, category) \/ ~HasColumn(df, sub_category)
    THEN {Raise(<<df>>, KeyError)}
    ELSE {[dfs |-> <<df>>, ret |-> NoValue, err |-> NoError,
           fig |-> GroupedBarFigure(g, category, sub_category, count)]
          : g \in SortByCountDescending(GroupSizes(df, category, sub_category, count),
                                        count)}

\* ----------------------------------------- create_class_distribution_table
\* Variant of the percentage that cuts the fourth decimal instead of rounding.
TablePercentageTruncated(count, nrows) == (count * 100000) \div nrows

\* np.round(count / len(df) * 100, 3), in thousandths of a percent.
TablePercentage(count, nrows) == RoundHalfEven(count * 100000, nrows)

\* The outcomes of create_class_distribution_table(df, column_name).
CreateClassDistributionTable(df, column_name) ==
    IF ~HasColumn(df, column_name)
    THEN {Raise(<<df>>, KeyError)}
    ELSE {[dfs |-> <<df>>, fig |-> NoFigure, err |-> NoError,
           ret |-> [kind |-> "table",
                    rows |-> [i \in DOMAIN cd |->
                                [index |-> i,
                                 Attacco |-> cd[i].label,
                                 NumeroDiEsempi |-> cd[i].count,
                                 Percentuale |-> TablePercentage(cd[i].count,
                                                                 Len(df.rows))]]]]
          : cd \in UNION {SortValuesDescending(vc) :
                            vc \in ValueCounts(Column(df, column_name))}}

\* ------------------------------------------------------ find_unique_values
\* set(df[column_name].unique()): the distinct cells as Python objects.  Two
\* objects are the same set element when they are equal; a NaN equals only
\* itself, so the two columns' NaN are one element when they are the same
\* object (obj 0) and two when each column boxes its own (obj 1 and obj 2).
UniqueSet(s, which, own_nan) ==
    {[value |-> v, obj |-> IF v = NaN /\ own_nan THEN which ELSE 0] : v \in Unique(s)}

\* pd.DataFrame(list(values), columns=[...]): the values in the set's
\* iteration order, which is any order.
ExclusiveFrames(values) == {[kind |-> "frame", values |-> o] : o \in Orderings(values)}

\* The outcomes of find_unique_values(df1, df2, column_name).
FindUniqueValues(df1, df2, column_name, own_nan) ==
    IF ~HasColumn(df1, column_name) \/ ~HasColumn(df2, column_name)
    THEN {Raise(<<df1, df2>>, KeyError)}
    ELSE LET unique_values_df1 == UniqueSet(Column(df1, column_name), 1, own_nan)
             unique_values_df2 == UniqueSet(Column(df2, column_name), 2, own_nan)
             values_only_in_df1 == unique_values_df1 \ unique_values_df2
             values_only_in_df2 == unique_values_df2 \ unique_values_df1
         IN  {[dfs |-> <<df1, df2>>, fig |-> NoFigure, err |-> NoError,
               ret |-> [kind |-> "pair", first |-> e1, second |-> e2]]
              : e1 \in ExclusiveFrames({o.value : o \in values_only_in_df1}),
                e2 \in ExclusiveFrames({o.value : o \in values_only_in_df2})}

\* -------------------------------------------------- plot_line_distribution
\* The outcomes of plot_line_distribution(df, column, ...).
PlotLineDistribution(df, column) ==
    IF ~HasColumn(df, column)
    THEN {Raise(<<df>>, KeyError)}
    ELSE {[dfs |-> <<df>>, ret |-> NoValue, err |-> NoError,
           fig |-> [kind |-> "line", shown |-> TRUE,
                    points |-> [i \in DOMAIN vc |->
                                  [x |-> vc[i].label, Count |-> vc[i].count]]]]
          : vc \in ValueCounts(Column(df, column))}

\* ------------------------------------------------------------------- state
VARIABLES
    tables, \* the tables the notebook holds and hands to the helpers
    call,   \* the helper called last, its parameters and the tables handed
    ret,    \* the value it returned
    fig,    \* the figure it created
    err     \* the exception it raised

vars == <<tables, call, ret, fig, err>>

\* The name of the count column plot_grouped_bar is asked to produce.
CountColumnNames == {"count"}

\* The notebook holds one table, or two tables to compare; no helper has
\* been called.
Init ==
    /\ tables \in {<<df>> : df \in Tables} \cup (UniqueTables \X UniqueTables)
    /\ call = [op |-> "none"]
    /\ ret = NoValue
    /\ fig = NoFigure
    /\ err = NoError

\* A behaviour is one call on fresh tables: the helpers read nothing but
\* their arguments, so a further call reaches no state a first call does not.
Ready == call.op = "none"

\* The call c, handed the tables at the positions c.at, ends in outcome o.
Finish(c, o) ==
    /\ call' = c
    /\ tables' = [k \in DOMAIN tables |->
                    IF \E n \in DOMAIN c.at : c.at[n] = k
                    THEN o.dfs[CHOOSE n \in DOMAIN c.at : c.at[n] = k]
                    ELSE tables[k]]
    /\ ret' = o.ret
    /\ fig' = o.fig
    /\ err' = o.err

CallPlotClassDistribution ==
    /\ Ready
    /\ \E k \in DOMAIN tables, column \in ColumnNames :
           \E o \in PlotClassDistribution(tables[k], column) :
               Finish([op |-> "plot_class_distribution", at |-> <<k>>, column |-> column], o)

CallPlotPieChartDistribution ==
    /\ Ready
    /\ \E k \in DOMAIN tables, column \in ColumnNames, t \in ExplodeThresholds :
           \E o \in PlotPieChartDistribution(tables[k], column, t) :
               Finish([op |-> "plot_pie_chart_distribution", at |-> <<k>>,
                       column |-> column, explode_threshold |-> t], o)

\* category and sub_category are two different columns, and count names no
\* column of the table.
CallPlotGroupedBar ==
    /\ Ready
    /\ \E k \in DOMAIN tables, category \in ColumnNames, sub_category \in ColumnNames,
          count \in CountColumnNames :
           /\ category # sub_category
           /\ count \notin tables[k].columns
           /\ \E o \in PlotGroupedBar(tables[k], category, sub_category, count) :
                 Finish([op |-> "plot_grouped_bar", at |-> <<k>>, category |-> category,
                         sub_category |-> sub_category, count |-> count], o)

CallCreateClassDistributionTable ==
    /\ Ready
    /\ \E k \in DOMAIN tables, column_name \in ColumnNames :
           \E o \in CreateClassDistributionTable(tables[k], column_name) :
               Finish([op |-> "create_class_distribution_table", at |-> <<k>>,
                       column |-> column_name], o)

CallFindUniqueValues ==
    /\ Ready
    /\ \E column_name \in ColumnNames, own_nan \in BOOLEAN :
           /\ Len(tables) = 2
           /\ \E o \in FindUniqueValues(tables[1], tables[2], column_name, own_nan) :
                 Finish([op |-> "find_unique_values", at |-> <<1, 2>>,
                         column |-> column_name, own_nan |-> own_nan], o)

CallPlotLineDistribution ==
    /\ Ready
    /\ \E k \in DOMAIN tables, column \in ColumnNames :
           \E o \in PlotLineDistribution(tables[k], column) :
               Finish([op |-> "plot_line_distribution", at |-> <<k>>, column |-> column], o)

Next ==
    \/ CallPlotClassDistribution
    \/ CallPlotPieChartDistribution
    \/ CallPlotGroupedBar
    \/ CallCreateClassDistributionTable
    \/ CallFindUniqueValues
    \/ CallPlotLineDistribution

Spec == Init /\ [][Next]_vars

\* ------------------------------------------------------------ properties
\* The table the last call was handed first, and the cells of its column.
T == tables[call.at[1]]

TC == Column(T, call.column)

\* The distinct values of a column as pandas counts them (nunique): the
\* missing marker is not a value.
DistinctValues(s) == Unique(s) \ {NaN}

Abs(x) == IF x < 0 THEN -x ELSE x

RECURSIVE SumOver(_, _)
SumOver(rows, field) ==
    IF rows = <<>> THEN 0 ELSE Head(rows)[field] + SumOver(Tail(rows), field)

Elements(seq) == {seq[i] : i \in DOMAIN seq}

\* p is n/d rounded to the nearest integer.
Nearest(p, n, d) == 2 * Abs(p * d - n) <= d

Returned(op) == call.op = op /\ err = NoError

\* C1: the table create_class_distribution_table(T, C) returns has as many
\* rows as T[C] has distinct values, and its 'Numero di Esempi' counts sum
\* to the number of rows of T, whatever the C cells hold.
C1_RowsAndCountsCoverTable ==
    Returned("create_class_distribution_table") =>
        /\ Len(ret.rows) = Cardinality(DistinctValues(TC))
        /\ SumOver(ret.rows, "NumeroDiEsempi") = Len(T.rows)

\* C2: with V1, V2 the distinct values of T1[C] and T2[C], the outputs E1, E2
\* of find_unique_values(T1, T2, C) are V1 \ V2 and V2 \ V1, are disjoint
\* from each other and from V1 \cap V2, and with it make up V1 \cup V2.
C2_ExclusiveValuesAreSetDifferences ==
    Returned("find_unique_values") =>
        LET V1 == Unique(Column(tables[1], call.column))
            V2 == Unique(Column(tables[2], call.column))
            E1 == Elements(ret.first.values)
            E2 == Elements(ret.second.values)
        IN  /\ E1 = V1 \ V2
            /\ E2 = V2 \ V1
            /\ E1 \cap E2 = {}
            /\ E1 \cap (V1 \cap V2) = {}
            /\ E2 \cap (V1 \cap V2) = {}
            /\ E1 \cup E2 \cup (V1 \cap V2) = V1 \cup V2

\* C3: the returned table is a sequence of (category, count, percentage) rows
\* indexed 1..n without gaps, counts non-increasing, each count the number of
\* rows of T holding the category and each percentage that count over the
\* number of rows of T, times 100, rounded to three decimals.
C3_SummaryRows ==
    Returned("create_class_distribution_table") =>
        /\ \A i \in DOMAIN ret.rows :
              /\ ret.rows[i].index = i
              /\ ret.rows[i].NumeroDiEsempi = CountOf(TC, ret.rows[i].Attacco)
              /\ Nearest(ret.rows[i].Percentuale,
                         ret.rows[i].NumeroDiEsempi * 100000, Len(T.rows))
        /\ \A i \in 1..(Len(ret.rows) - 1) :
              ret.rows[i].NumeroDiEsempi >= ret.rows[i + 1].NumeroDiEsempi

\* C3 witness: [dos, dos, probe, dos] gives (dos, 3, 75.0), (probe, 1, 25.0).
C3_Witness ==
    /\ Returned("create_class_distribution_table")
    /\ TC = <<"dos", "dos", "probe", "dos">>
    /\ ret.rows = <<[index |-> 1, Attacco |-> "dos", NumeroDiEsempi |-> 3,
                     Percentuale |-> 75000],
                    [index |-> 2, Attacco |-> "probe", NumeroDiEsempi |-> 1,
                     Percentuale |-> 25000]>>

\* C4: for a non-empty table the 'Percentuale' values sum to 100 within
\* 0.0005 per summary row (in thousandths: within half a unit per row).
C4_PercentagesSumTo100 ==
    (Returned("create_class_distribution_table") /\ Len(T.rows) > 0) =>
        2 * Abs(SumOver(ret.rows, "Percentuale") - 100000) <= Len(ret.rows)

\* C5: a non-empty table whose column has exactly one distinct value gives a
\* one-row table, that value its category and 100 its percentage.
C5_SingleValueIsOneRowAt100 ==
    (/\ Returned("create_class_distribution_table")
     /\ Len(T.rows) > 0
     /\ Cardinality(DistinctValues(TC)) = 1) =>
        /\ Len(ret.rows) = 1
        /\ ret.rows[1].Attacco \in DistinctValues(TC)
        /\ ret.rows[1].Percentuale = 100000

\* C7: a slice is exploded (0.1) exactly when its category's count over the
\* sum of all category counts is strictly below explode_threshold, every
\* other slice has offset 0, and there is one explode value per category, in
\* the order of the value counts.
C7_ExplodeBelowThreshold ==
    Returned("plot_pie_chart_distribution") =>
        LET total == Cardinality({i \in DOMAIN TC : TC[i] # NaN})
        IN  /\ Len(fig.slices) = Cardinality(DistinctValues(TC))
            /\ {fig.slices[i].label : i \in DOMAIN fig.slices} = DistinctValues(TC)
            /\ \A i \in 1..(Len(fig.slices) - 1) :
                  fig.slices[i].size >= fig.slices[i + 1].size
            /\ \A i \in DOMAIN fig.slices :
                  LET n == CountOf(TC, fig.slices[i].label)
                  IN  /\ fig.slices[i].size = n
                      /\ fig.slices[i].explode =
                            IF n * 100 < call.explode_threshold * total
                            THEN ExplodeOffset ELSE 0

\* C7 witness: a slice whose share equals the threshold, not exploded, beside
\* a slice below the threshold, exploded.
C7_Witness ==
    /\ Returned("plot_pie_chart_distribution")
    /\ \E i, j \in DOMAIN fig.slices :
          /\ fig.slices[i].size * 100 = call.explode_threshold * SumOver(fig.slices, "size")
          /\ fig.slices[i].explode = 0
          /\ fig.slices[j].explode = ExplodeOffset

\* C8: every bar of plot_class_distribution is annotated with its category's
\* count and with that category's percentage of the number of rows of T.
C8_BarPercentOfRowCount ==
    Returned("plot_class_distribution") =>
        \A i \in DOMAIN fig.bars :
            /\ fig.bars[i].text = CountOf(TC, fig.bars[i].label)
            /\ Nearest(fig.bars[i].percentage,
                       CountOf(TC, fig.bars[i].label) * 10000, Len(T.rows))

\* C9: no helper changes a table it is handed, whether it returns or raises:
\* same columns, rows, row order and cells after the call as before.
C9_InputsUnchanged == [][tables' = tables]_vars

\* C9 witness: plot_grouped_bar has drawn the groups of a table with rows.
C9_Witness ==
    /\ Returned("plot_grouped_bar")
    /\ fig.data # <<>>
    /\ call.count \notin T.columns

\* The columns the last call looks up in the table at position n.
ColumnsLookedUp ==
    IF call.op = "plot_grouped_bar" THEN {call.category, call.sub_category}
    ELSE {call.column}

ColumnMissing ==
    /\ call.op # "none"
    /\ \E n \in DOMAIN call.at : ~(ColumnsLookedUp \subseteq tables[call.at[n]].columns)

\* C10: when a named column is in none of the columns of an input table, the
\* helper raises the lookup error and has produced nothing: no figure
\* created or shown, no table returned.
C10_MissingColumnRaisesFirst ==
    ColumnMissing => (err = KeyError /\ fig = NoFigure /\ ret = NoValue)

\* C10 witness: find_unique_values with the column in the first table only.
C10_Witness ==
    /\ call.op = "find_unique_values"
    /\ call.column \in tables[1].columns
    /\ call.column \notin tables[2].columns
    /\ err = KeyError

====
